---- MODULE Spec2Model ----
(***************************************************************************)
(* Rescue-bots city simulation (src/rescue_bots_sim.py).                   *)
(*                                                                         *)
(* Reals are fixed-point integers with three decimals: 1.0 is Scale.       *)
(* Positions, distances, water, intensities, rates and simulation time are *)
(* all kept in these units, so dt = 0.1 is 100 and the destruction dwell   *)
(* time of 45 is 45000.  Square roots and the direction quotient round     *)
(* toward zero.                                                            *)
(*                                                                         *)
(* step() is four atomic phases (assign_targets, update_robots,            *)
(* update_fires, the clock), driven by the run loop of __main__.  Every    *)
(* random draw is a nondeterministic choice.  hist and dry_since are       *)
(* history variables: they record, and never influence, the program.       *)
(***************************************************************************)
EXTENDS Integers, Sequences, FiniteSets, TLC

VARIABLES
    city_size, num_stations,   \* constructor arguments kept as fields
    buildings,                 \* id -> Building
    robots,                    \* id -> Robot
    fires,                     \* list of Fire
    water_stations,            \* id -> WaterStation
    time,                      \* self.time
    total_fires_started, total_fires_extinguished, total_buildings_destroyed,
    response_times,            \* list of recorded response times
    max_iterations, i,         \* the run loop's bound and counter
    pc,                        \* position inside step() / the run loop
    outcome,                   \* how the run loop ended
    hist,                      \* history: the states at the last tick starts
    dry_since                  \* history: robot -> iteration it ran dry in

vars == <<city_size, num_stations, buildings, robots, fires, water_stations,
          time, total_fires_started, total_fires_extinguished,
          total_buildings_destroyed, response_times, max_iterations, i, pc,
          outcome, hist, dry_since>>

-----------------------------------------------------------------------------
(* Fixed-point arithmetic *)

Scale == 1000

None == -1

Min2(a, b) == IF a <= b THEN a ELSE b

Min3(a, b, c) == Min2(a, Min2(b, c))

\* a * b of two fixed-point numbers
Mul(a, b) == (a * b) \div Scale

RECURSIVE SqrtSearch(_, _, _)
SqrtSearch(n, lo, hi) ==
    IF lo >= hi THEN lo
    ELSE LET mid == (lo + hi + 1) \div 2
         IN  IF mid * mid <= n THEN SqrtSearch(n, mid, hi)
                               ELSE SqrtSearch(n, lo, mid - 1)

\* math.sqrt on a non-negative integer, rounded down
Sqrt(n) == SqrtSearch(n, 0, Min2(n, 46340))

\* (a / d) * m, the sign of a kept, rounded toward zero
Along(a, d, m) ==
    IF a >= 0 THEN (a * m) \div d ELSE -(((-a) * m) \div d)

distance(x1, y1, x2, y2) ==
    Sqrt((x2 - x1) * (x2 - x1) + (y2 - y1) * (y2 - y1))

-----------------------------------------------------------------------------
(* Program constants *)

DT == 100                       \* self.dt = 0.1
RefillRate == 50000             \* WaterStation.refill_rate
NearbyRadius == 15000
LowWaterPermille == 200         \* 0.2 of max capacity
FullPermille == 950             \* 0.95 of max capacity
StationRadius == 2000
BuildingRadiusHalved == Scale \div 2  \* mutant: arrival tested against 0.5
BuildingRadius == 1000
GrowthPermille == 700           \* 0.7
MaxIntensity == 200000
DestroyIntensity == 180000
DestroyTime == 45000
SpreadRadius == 8000
DamageLimit == 100

RobotTypes == {"scout", "standard", "heavy"}

\* water capacity and extinguish rate of each robot type
TypeWater(t) ==
    IF t = "scout" THEN 50000 ELSE IF t = "standard" THEN 120000 ELSE 250000

TypeExtinguish(t) ==
    IF t = "scout" THEN 3000 ELSE IF t = "standard" THEN 6000 ELSE 10000

-----------------------------------------------------------------------------
(* _calculate_fire_priority and _start_fire *)

_calculate_fire_priority(bs, building_id, intensity) ==
    LET building == bs[building_id]
        nearby_count == Cardinality({b \in DOMAIN bs :
                            /\ distance(building.x, building.y, bs[b].x, bs[b].y)
                                 < NearbyRadius
                            /\ ~bs[b].destroyed})
    IN  IF intensity > 80000 /\ nearby_count > 10 THEN 5
        ELSE IF intensity > 60000 \/ nearby_count > 7 THEN 4
        ELSE IF intensity > 40000 \/ nearby_count > 4 THEN 3
        ELSE IF intensity > 20000 THEN 2
        ELSE 1

\* w is the world: a record of buildings, fires and the clock.  intensity
\* and spread_rate are the two random.uniform draws of _start_fire.
_start_fire(w, building_id, intensity, spread_rate) ==
    LET priority == _calculate_fire_priority(w.buildings, building_id, intensity)
    IN  [w EXCEPT
            !.buildings[building_id].on_fire = TRUE,
            !.buildings[building_id].fire_intensity = intensity,
            !.buildings[building_id].fire_start_time = w.time,
            !.fires = Append(@, [building_id |-> building_id,
                                 intensity   |-> intensity,
                                 spread_rate |-> spread_rate,
                                 priority    |-> priority])]

-----------------------------------------------------------------------------
(* _initialize_city: sc holds the constructor arguments and the random     *)
(* draws the constructor makes                                             *)

Building(id, x, y) ==
    [id |-> id, x |-> x, y |-> y, on_fire |-> FALSE, fire_intensity |-> 0,
     fire_start_time |-> 0, destroyed |-> FALSE]

Robot(id, d) ==
    [id |-> id, x |-> d.x, y |-> d.y, robot_type |-> d.type, speed |-> d.speed,
     target_building |-> None, target_station |-> None,
     water_capacity |-> TypeWater(d.type),
     max_water_capacity |-> TypeWater(d.type),
     extinguish_rate |-> TypeExtinguish(d.type),
     fires_extinguished |-> 0, distance_traveled |-> 0]

\* int(math.sqrt(num_stations))
GridSize(n) == Sqrt(n)

StationRow(n, k) == k \div GridSize(n)

StationCol(n, k) == k % GridSize(n)

\* (cell + 0.5) * (city_size / grid_size)
CellCentre(cs, n, cell) == ((2 * cell + 1) * (cs \div GridSize(n))) \div 2

WaterStation(cs, n, k, jit) ==
    [id |-> k,
     x |-> CellCentre(cs, n, StationCol(n, k)) + jit[1],
     y |-> CellCentre(cs, n, StationRow(n, k)) + jit[2],
     refill_rate |-> RefillRate]

RECURSIVE StartFires(_, _, _)
StartFires(w, sc, k) ==
    IF k > Len(sc.sample) THEN w
    ELSE StartFires(_start_fire(w, sc.sample[k], sc.idraw[k], sc.sdraw[k]), sc, k + 1)

\* mutant: the buildings are drawn with replacement, and the same one comes
\* up every time
InitWorldWithReplacement(sc) ==
    StartFires([buildings |-> [b \in 0 .. Len(sc.bpos) - 1 |->
                                  Building(b, sc.bpos[b + 1][1], sc.bpos[b + 1][2])],
                fires |-> << >>,
                time |-> 0],
               [sc EXCEPT !.sample = [k \in DOMAIN sc.sample |-> sc.sample[1]]],
               1)

InitWorld(sc) ==
    StartFires([buildings |-> [b \in 0 .. Len(sc.bpos) - 1 |->
                                  Building(b, sc.bpos[b + 1][1], sc.bpos[b + 1][2])],
                fires |-> << >>,
                time |-> 0],
               sc, 1)
-----------------------------------------------------------------------------
(* assign_targets *)

\* mutant: a robot on its way to a station counts as available
IsAvailableIgnoringStation(r) == r.target_building = None

IsAvailable(r) == r.target_building = None /\ r.target_station = None

\* mutant: the two sides of the comparison are swapped
LowWaterSwapped(r) == r.max_water_capacity * Scale < r.water_capacity * LowWaterPermille

LowWater(r) == r.water_capacity * Scale < r.max_water_capacity * LowWaterPermille

\* min(self.water_stations, key=distance): the first station at least distance
NearestStation(r, ws) ==
    LET d(s) == distance(r.x, r.y, ws[s].x, ws[s].y)
    IN  CHOOSE s \in DOMAIN ws :
            \A t \in DOMAIN ws : d(s) < d(t) \/ (d(s) = d(t) /\ s <= t)

\* positions in the fire list of the fires that need help
FiresNeedingHelp(fs, bs) ==
    {k \in DOMAIN fs : /\ fs[k].intensity > 0
                       /\ ~bs[fs[k].building_id].destroyed
                       /\ bs[fs[k].building_id].on_fire}

\* mutant: the key is the distance alone
KeyLessByDistance(r, bs, f, g) ==
    distance(r.x, r.y, bs[f.building_id].x, bs[f.building_id].y)
      < distance(r.x, r.y, bs[g.building_id].x, bs[g.building_id].y)

\* the key (-priority * 100, distance) compared as Python compares tuples
KeyLess(r, bs, f, g) ==
    LET df == distance(r.x, r.y, bs[f.building_id].x, bs[f.building_id].y)
        dg == distance(r.x, r.y, bs[g.building_id].x, bs[g.building_id].y)
    IN  \/ -f.priority * 100 < -g.priority * 100
        \/ (-f.priority * 100 = -g.priority * 100 /\ df < dg)

\* min(fires_needing_help, key=...): the first fire of least key
BestFire(r, fs, bs) ==
    LET cand == FiresNeedingHelp(fs, bs)
    IN  CHOOSE k \in cand :
            \A m \in cand : \/ KeyLess(r, bs, fs[k], fs[m])
                            \/ (~KeyLess(r, bs, fs[m], fs[k]) /\ k <= m)

AssignRobot(r, fs, bs, ws) ==
    IF ~IsAvailable(r) THEN r
    ELSE IF LowWater(r)
         THEN [r EXCEPT !.target_station = ws[NearestStation(r, ws)].id]
    ELSE IF r.water_capacity > 0 /\ FiresNeedingHelp(fs, bs) # {}
         THEN [r EXCEPT !.target_building = fs[BestFire(r, fs, bs)].building_id]
    ELSE r

assign_targets(rs, fs, bs, ws) ==
    [k \in DOMAIN rs |-> AssignRobot(rs[k], fs, bs, ws)]

-----------------------------------------------------------------------------
(* update_robots *)

\* mutant: the step is not capped by the distance left
MoveTowardUncapped(r, tx, ty, dist) ==
    [r EXCEPT !.x = @ + Along(tx - r.x, dist, Mul(r.speed, DT)),
              !.y = @ + Along(ty - r.y, dist, Mul(r.speed, DT))]

\* the robot moved toward (tx, ty), which is dist away
MoveToward(r, tx, ty, dist) ==
    LET dx == tx - r.x
        dy == ty - r.y
        move_dist == Min2(Mul(r.speed, DT), dist)
    IN  [r EXCEPT !.x = @ + Along(dx, dist, move_dist),
                  !.y = @ + Along(dy, dist, move_dist)]

Tracked(old, new) ==
    [new EXCEPT !.distance_traveled =
                    @ + distance(old.x, old.y, new.x, new.y)]

\* mutant: the station target is cleared after the first refill step
AtStationOneShot(r, station) ==
    [r EXCEPT !.water_capacity =
                  @ + Min2(Mul(station.refill_rate, DT),
                           r.max_water_capacity - r.water_capacity),
              !.target_station = None]

AtStation(r, station) ==
    LET refill_amount == Min2(Mul(station.refill_rate, DT),
                              r.max_water_capacity - r.water_capacity)
        filled == r.water_capacity + refill_amount
    IN  [r EXCEPT !.water_capacity = filled,
                  !.target_station =
                      IF filled * Scale >= r.max_water_capacity * FullPermille
                      THEN None ELSE @]

\* mutant: the amount is not capped by the water left
extinguish_amount_uncapped(robot, building) ==
    Min2(Mul(robot.extinguish_rate, DT), building.fire_intensity)

extinguish_amount(robot, building) ==
    Min3(Mul(robot.extinguish_rate, DT), building.fire_intensity,
         robot.water_capacity)

\* mutant: the fire counts as out one unit of intensity early
FireOutEarly(left) == left <= 1000

\* if building.fire_intensity <= 0, after the subtraction
FireOut(left) == left <= 0

\* mutant: the building's on_fire flag is left set
PutOutStillBurning(w, k, b, water) ==
    [w EXCEPT
        !.buildings[b].fire_intensity = 0,
        !.robots[k] = Tracked(w.robots[k],
            [w.robots[k] EXCEPT !.water_capacity = water,
                                !.fires_extinguished = @ + 1,
                                !.target_building = None]),
        !.total_fires_extinguished = @ + 1,
        !.response_times =
            Append(@, w.time - w.buildings[b].fire_start_time),
        !.fires = SelectSeq(@, LAMBDA f : f.building_id # b)]

\* "Fire extinguished!": robot k, left with water, has put out building b
PutOut(w, k, b, water) ==
    [w EXCEPT
        !.buildings[b].on_fire = FALSE,
        !.buildings[b].fire_intensity = 0,
        !.robots[k] = Tracked(w.robots[k],
            [w.robots[k] EXCEPT !.water_capacity = water,
                                !.fires_extinguished = @ + 1,
                                !.target_building = None]),
        !.total_fires_extinguished = @ + 1,
        !.response_times =
            Append(@, w.time - w.buildings[b].fire_start_time),
        !.fires = SelectSeq(@, LAMBDA f : f.building_id # b)]

\* one pass of the loop body for robot k on world w
UpdateRobot(w, k) ==
    LET robot == w.robots[k]
    IN
    IF robot.target_station # None THEN
        LET station == w.water_stations[robot.target_station]
            dist == distance(robot.x, robot.y, station.x, station.y)
            new == IF dist < StationRadius
                   THEN AtStation(robot, station)
                   ELSE MoveToward(robot, station.x, station.y, dist)
        IN  [w EXCEPT !.robots[k] = Tracked(robot, new)]
    ELSE IF robot.target_building # None THEN
        LET b == robot.target_building
            building == w.buildings[b]
            dist == distance(robot.x, robot.y, building.x, building.y)
        IN
        IF building.destroyed \/ ~building.on_fire THEN
            [w EXCEPT !.robots[k].target_building = None]
        ELSE IF dist < BuildingRadius THEN
            IF building.on_fire /\ robot.water_capacity > 0 THEN
                LET amount == extinguish_amount(robot, building)
                    left == building.fire_intensity - amount
                    water == robot.water_capacity - amount
                IN
                IF FireOut(left) THEN PutOut(w, k, b, water)
                ELSE
                    [w EXCEPT
                        !.buildings[b].fire_intensity = left,
                        !.robots[k] = Tracked(robot,
                            [robot EXCEPT !.water_capacity = water])]
            ELSE
                [w EXCEPT !.robots[k] =
                    Tracked(robot, [robot EXCEPT !.target_building = None])]
        ELSE
            [w EXCEPT !.robots[k] =
                Tracked(robot, MoveToward(robot, building.x, building.y, dist))]
    ELSE
        [w EXCEPT !.robots[k] = Tracked(robot, robot)]

\* for robot in self.robots, in list order from robot k on
RECURSIVE update_robots(_, _)
update_robots(w, k) ==
    IF k \notin DOMAIN w.robots THEN w
    ELSE update_robots(UpdateRobot(w, k), k + 1)
-----------------------------------------------------------------------------
(* update_fires and _try_spread_fire *)

\* mutant: the intensity of a new fire is drawn from lower down
IntensityDrawsFromLow == {35000, 91000}

\* the draws of random.uniform(50, 100) and random.uniform(0.5, 2.0)
IntensityDraws == {55000, 91000}

SpreadRateDraws == {1000, 2000}

\* mutant: the growth is subtracted
GrowthNegated(spread_rate) ==
    -((spread_rate * DT * GrowthPermille) \div (Scale * Scale))

\* fire.spread_rate * self.dt * 0.7
Growth(spread_rate) == (spread_rate * DT * GrowthPermille) \div (Scale * Scale)

robots_nearby(rs, building_id) ==
    Cardinality({k \in DOMAIN rs : rs[k].target_building = building_id})

\* mutant: a destroyed building can catch fire again
potential_targets_with_ruins(bs, source) ==
    {b \in DOMAIN bs :
        /\ bs[b].id # bs[source].id
        /\ ~bs[b].on_fire
        /\ distance(bs[source].x, bs[source].y, bs[b].x, bs[b].y) < SpreadRadius}

potential_targets(bs, source) ==
    {b \in DOMAIN bs :
        /\ bs[b].id # bs[source].id
        /\ ~bs[b].on_fire
        /\ ~bs[b].destroyed
        /\ distance(bs[source].x, bs[source].y, bs[b].x, bs[b].y) < SpreadRadius}

\* min(potential_targets, key=dist): the first building at least distance
ClosestTarget(bs, source) ==
    LET d(b) == distance(bs[source].x, bs[source].y, bs[b].x, bs[b].y)
        pt == potential_targets(bs, source)
    IN  CHOOSE b \in pt : \A c \in pt : d(b) < d(c) \/ (d(b) = d(c) /\ b <= c)

\* mutant: every building in range is queued, not only the closest
_try_spread_fire_all(w, source, hit) ==
    LET pt == potential_targets(w.buildings, source)
        other == pt \ {ClosestTarget(w.buildings, source)}
    IN  IF pt # {} /\ hit
        THEN [w EXCEPT !.new_fires =
                 IF other = {} THEN Append(@, ClosestTarget(w.buildings, source))
                 ELSE Append(Append(@, ClosestTarget(w.buildings, source)),
                             CHOOSE b \in other : TRUE)]
        ELSE w

\* hit tells whether random.random() < spread_prob
_try_spread_fire(w, source, hit) ==
    IF potential_targets(w.buildings, source) # {} /\ hit
    THEN [w EXCEPT !.new_fires = Append(@, ClosestTarget(w.buildings, source))]
    ELSE w

\* the loop body for the fire at position k; d1 and d2 are the positions
\* whose first and second random.random() draw falls under the threshold
UpdateFire(w, k, d1, d2) ==
    LET fire == w.fires[k]
        b == fire.building_id
        building == w.buildings[b]
        grown == Min2(building.fire_intensity + Growth(fire.spread_rate),
                      MaxIntensity)
        w1 == [w EXCEPT !.buildings[b].fire_intensity = grown,
                        !.fires[k].intensity = grown]
    IN
    IF building.on_fire /\ ~building.destroyed THEN
        IF grown > DestroyIntensity /\ w.time - building.fire_start_time > DestroyTime
        THEN [w1 EXCEPT !.buildings[b].destroyed = TRUE,
                        !.buildings[b].on_fire = FALSE,
                        !.total_buildings_destroyed = @ + 1]
        ELSE IF robots_nearby(w.robots, building.id) = 0 /\ k \in d1
             THEN _try_spread_fire(w1, b, k \in d2)
             ELSE w1
    ELSE w

RECURSIVE FiresLoop(_, _, _, _)
FiresLoop(w, k, d1, d2) ==
    IF k > Len(w.fires) THEN w
    ELSE FiresLoop(UpdateFire(w, k, d1, d2), k + 1, d1, d2)

\* mutant: a queued building is set on fire without looking at on_fire
RECURSIVE AddNewFiresUnguarded(_, _, _, _)
AddNewFiresUnguarded(w, n, iv, sv) ==
    IF n > Len(w.new_fires) THEN w
    ELSE AddNewFiresUnguarded(
             [_start_fire(w, w.new_fires[n], iv[n], sv[n])
                 EXCEPT !.total_fires_started = @ + 1],
             n + 1, iv, sv)

\* mutant: a fire started by spreading is not counted
RECURSIVE AddNewFiresUncounted(_, _, _, _)
AddNewFiresUncounted(w, n, iv, sv) ==
    IF n > Len(w.new_fires) THEN w
    ELSE IF ~w.buildings[w.new_fires[n]].on_fire
         THEN AddNewFiresUncounted(
                 _start_fire(w, w.new_fires[n], iv[n], sv[n]), n + 1, iv, sv)
         ELSE AddNewFiresUncounted(w, n + 1, iv, sv)

\* for building_id in new_fires; iv and sv are the draws of each _start_fire
RECURSIVE AddNewFires(_, _, _, _)
AddNewFires(w, n, iv, sv) ==
    IF n > Len(w.new_fires) THEN w
    ELSE IF ~w.buildings[w.new_fires[n]].on_fire
         THEN AddNewFires(
                 [_start_fire(w, w.new_fires[n], iv[n], sv[n])
                     EXCEPT !.total_fires_started = @ + 1],
                 n + 1, iv, sv)
         ELSE AddNewFires(w, n + 1, iv, sv)

\* the fires that can reach the first random draw
Unattended(w) ==
    {k \in DOMAIN w.fires :
        /\ w.buildings[w.fires[k].building_id].on_fire
        /\ ~w.buildings[w.fires[k].building_id].destroyed
        /\ robots_nearby(w.robots, w.fires[k].building_id) = 0}

update_fires(w, d1, d2, iv, sv) ==
    AddNewFires(FiresLoop(w, 1, d1, d2), 1, iv, sv)
-----------------------------------------------------------------------------
(* Bounds and the constructor inputs the model is run on *)

CitySize == 12000       \* city_size
MaxStations == 5        \* num_stations ranges over 1 .. MaxStations
ShortRun == 6           \* max_iterations where fires spread freely
MidRun == 40            \* max_iterations of the two-robot runs
LongRun == 585          \* max_iterations of the runs without free spread
HistLen == 7            \* tick starts remembered in hist

\* the random.uniform(-10, 10) draws of station k
JitterDraw(k) == <<(k % 2) * 1000, -((k % 3) * 500)>>

Scenario(n, iters, bpos, rdraw, sample, idraw, sdraw) ==
    [city_size |-> CitySize, num_stations |-> n, max_iterations |-> iters,
     bpos |-> bpos, rdraw |-> rdraw, sample |-> sample, idraw |-> idraw,
     sdraw |-> sdraw]

RobotDraw(type, speed, x, y) == [type |-> type, speed |-> speed, x |-> x, y |-> y]

SpeedDraw(type) ==
    IF type = "scout" THEN 15000 ELSE IF type = "standard" THEN 10000 ELSE 5000

\* one building on fire, one robot of any type, next to it or away from it
LoneFire ==
    {Scenario(n, LongRun, << <<6000, 3000>> >>,
              << RobotDraw(t, SpeedDraw(t), p[1], p[2]) >>,
              <<0>>, <<f[1]>>, <<f[2]>>) :
        n \in 1 .. MaxStations, t \in RobotTypes,
        f \in {<<50580, 2000>>, <<54290, 1000>>},
        p \in {<<6000, 3500>>, <<6000, 3000>>, <<6000, 9000>>, <<9000, 7000>>}}

\* two distant buildings burning hard, no robot or one scout busy with one
BurnOut ==
    {Scenario(1, LongRun, << <<2000, 2000>>, <<2000, 11000>> >>, rd,
              <<0, 1>>, <<99000, 99000>>, <<2000, 2000>>) :
        rd \in {<< >>, << RobotDraw("scout", 15000, 2000, 10500) >>}}

\* three buildings within spread range of each other, one or two on fire
Spreading ==
    {Scenario(1, ShortRun, << <<3000, 3000>>, <<6000, 3000>>, <<6000, 7000>> >>,
              rd, sm, iv, <<2000, 1000>>) :
        rd \in {<< >>,
                << RobotDraw("heavy", 5000, 6000, 0) >>,
                << RobotDraw("heavy", 5000, 6000, 0),
                   RobotDraw("scout", 15000, 3000, 3500) >>},
        sm \in {<<0>>, <<1>>, <<2>>, <<0, 1>>, <<1, 0>>, <<1, 2>>, <<2, 1>>,
                <<0, 2>>, <<2, 0>>},
        iv \in {<<a, b>> : a \in IntensityDraws, b \in IntensityDraws}}

\* two buildings on fire, two robots at the first
TwoRobots ==
    {Scenario(1, MidRun, << <<3000, 3000>>, <<6000, 3000>> >>,
              << RobotDraw("heavy", 5000, 3000, 3500),
                 RobotDraw(t, SpeedDraw(t), 3000, 3000) >>,
              <<0, 1>>, <<55000, 55000>>, <<2000, 2000>>) :
        t \in RobotTypes}

\* two buildings within spread range, no robot: the first burns down while
\* the second is still on fire
Smoulder ==
    {Scenario(1, LongRun, << <<2000, 2000>>, <<2000, 7000>> >>, << >>,
              <<0, 1>>, <<99000, 55000>>, <<2000, 1000>>)}

\* one fire with three heavy robots next to it and a fourth on its way from
\* the far corner, first or last in the robot list, beside a building that
\* is not on fire
Latecomer ==
    {Scenario(1, MidRun, << <<6000, 3000>>, <<6000, 7000>> >>, rd,
              <<0>>, <<50580>>, <<2000>>) :
        rd \in {<< RobotDraw("heavy", 5000, 6000, 3500),
                   RobotDraw("heavy", 5000, 6500, 3000),
                   RobotDraw("heavy", 5000, 5500, 3000),
                   RobotDraw("heavy", 5000, 0, CitySize) >>,
                << RobotDraw("heavy", 5000, 0, CitySize),
                   RobotDraw("heavy", 5000, 6000, 3500),
                   RobotDraw("heavy", 5000, 6500, 3000),
                   RobotDraw("heavy", 5000, 5500, 3000) >>}}

\* a dense city: a fire in the corner with one building in spread range and
\* twelve more within 15 of both, none of them within spread range
Dense ==
    {Scenario(1, ShortRun,
              << <<0, 0>>, <<0, 3000>>,
                 <<9000, 0>>, <<9000, 2000>>, <<9000, 4000>>, <<9000, 6000>>,
                 <<10000, 0>>, <<10000, 2000>>, <<10000, 4000>>, <<10000, 6000>>,
                 <<11000, 0>>, <<11000, 2000>>, <<11000, 4000>>, <<11000, 6000>> >>,
              << >>, <<0>>, <<f>>, <<2000>>) :
        f \in {55000, 91000}}

Scenarios ==
    LoneFire \cup BurnOut \cup Spreading \cup TwoRobots \cup Smoulder
        \cup Latecomer \cup Dense

-----------------------------------------------------------------------------
(* State after construction *)

Init ==
    \E sc \in Scenarios :
        LET w == InitWorld(sc)
        IN  /\ city_size = sc.city_size
            /\ num_stations = sc.num_stations
            /\ buildings = w.buildings
            /\ fires = w.fires
            /\ robots = [k \in 0 .. Len(sc.rdraw) - 1 |-> Robot(k, sc.rdraw[k + 1])]
            /\ water_stations =
                 [k \in 0 .. sc.num_stations - 1 |->
                     WaterStation(sc.city_size, sc.num_stations, k, JitterDraw(k))]
            /\ time = 0
            /\ total_fires_started = Len(sc.sample)
            /\ total_fires_extinguished = 0
            /\ total_buildings_destroyed = 0
            /\ response_times = << >>
            /\ max_iterations = sc.max_iterations
            /\ i = 0
            /\ pc = "assign_targets"
            /\ outcome = "running"
            /\ hist = << >>
            /\ dry_since = [k \in 0 .. Len(sc.rdraw) - 1 |-> None]

-----------------------------------------------------------------------------
(* step() and the run loop *)

World ==
    [buildings |-> buildings, robots |-> robots, fires |-> fires,
     water_stations |-> water_stations, time |-> time,
     total_fires_started |-> total_fires_started,
     total_fires_extinguished |-> total_fires_extinguished,
     total_buildings_destroyed |-> total_buildings_destroyed,
     response_times |-> response_times, new_fires |-> << >>]

Snapshot ==
    [time |-> time, buildings |-> buildings, robots |-> robots, fires |-> fires,
     total_fires_started |-> total_fires_started]

Remember(h, s) ==
    IF Len(h) < HistLen THEN Append(h, s) ELSE Append(Tail(h), s)

\* self.assign_targets(), the first call of step()
AssignTargets ==
    /\ pc = "assign_targets"
    /\ robots' = assign_targets(robots, fires, buildings, water_stations)
    /\ hist' = Remember(hist, Snapshot)
    /\ dry_since' = [k \in DOMAIN robots |->
                        IF /\ dry_since[k] = None
                           /\ robots[k].target_building = None
                           /\ robots[k].target_station = None
                           /\ robots[k].water_capacity = 0
                        THEN i ELSE dry_since[k]]
    /\ pc' = "update_robots"
    /\ UNCHANGED <<city_size, num_stations, buildings, fires, water_stations,
                   time, total_fires_started, total_fires_extinguished,
                   total_buildings_destroyed, response_times, max_iterations,
                   i, outcome>>

\* self.update_robots()
UpdateRobots ==
    /\ pc = "update_robots"
    /\ LET w == update_robots(World, 0)
       IN  /\ robots' = w.robots
           /\ buildings' = w.buildings
           /\ fires' = w.fires
           /\ total_fires_extinguished' = w.total_fires_extinguished
           /\ response_times' = w.response_times
           /\ dry_since' = [k \in DOMAIN robots |->
                               IF w.robots[k].water_capacity * Scale
                                    >= w.robots[k].max_water_capacity * FullPermille
                               THEN None ELSE dry_since[k]]
    /\ pc' = "update_fires"
    /\ UNCHANGED <<city_size, num_stations, water_stations, time,
                   total_fires_started, total_buildings_destroyed,
                   max_iterations, i, outcome, hist>>

\* self.update_fires()
UpdateFires ==
    /\ pc = "update_fires"
    /\ \E d1 \in SUBSET Unattended(World) :
       \E d2 \in SUBSET d1 :
       LET queued == Len(FiresLoop(World, 1, d1, d2).new_fires)
       IN  \E iv \in [1 .. queued -> IntensityDraws] :
           \E sv \in [1 .. queued -> SpreadRateDraws] :
               LET w == update_fires(World, d1, d2, iv, sv)
               IN  /\ buildings' = w.buildings
                   /\ fires' = w.fires
                   /\ total_fires_started' = w.total_fires_started
                   /\ total_buildings_destroyed' = w.total_buildings_destroyed
    /\ pc' = "advance"
    /\ UNCHANGED <<city_size, num_stations, robots, water_stations, time,
                   total_fires_extinguished, response_times, max_iterations,
                   i, outcome, hist, dry_since>>

\* mutant: step() returns without advancing the clock
AdvanceTimeForgotten ==
    /\ pc = "advance"
    /\ pc' = "loop"
    /\ UNCHANGED <<city_size, num_stations, buildings, robots, fires,
                   water_stations, time, total_fires_started,
                   total_fires_extinguished, total_buildings_destroyed,
                   response_times, max_iterations, i, outcome, hist,
                   dry_since>>

\* self.time += self.dt, the end of step()
AdvanceTime ==
    /\ pc = "advance"
    /\ time' = time + DT
    /\ pc' = "loop"
    /\ UNCHANGED <<city_size, num_stations, buildings, robots, fires,
                   water_stations, total_fires_started,
                   total_fires_extinguished, total_buildings_destroyed,
                   response_times, max_iterations, i, outcome, hist,
                   dry_since>>

\* the rest of the run loop's body, and its for / else
LoopCheck ==
    /\ pc = "loop"
    /\ outcome' = IF Len(fires) = 0 THEN "success"
                  ELSE IF total_buildings_destroyed > DamageLimit THEN "warning"
                  ELSE IF i + 1 >= max_iterations THEN "limit"
                  ELSE "running"
    /\ i' = IF outcome' = "running" THEN i + 1 ELSE i
    /\ pc' = IF outcome' = "running" THEN "assign_targets" ELSE "done"
    /\ UNCHANGED <<city_size, num_stations, buildings, robots, fires,
                   water_stations, time, total_fires_started,
                   total_fires_extinguished, total_buildings_destroyed,
                   response_times, max_iterations, hist, dry_since>>

Next ==
    \/ AssignTargets
    \/ UpdateRobots
    \/ UpdateFires
    \/ AdvanceTime
    \/ LoopCheck

Spec == Init /\ [][Next]_vars

-----------------------------------------------------------------------------
(* Tick boundaries and the last tick starts *)

\* no step() is in progress: after construction and after every step()
TickBoundary == pc \in {"assign_targets", "loop", "done"}

\* a step() has just returned
AfterStep == pc = "loop"

OnFire == {b \in DOMAIN buildings : buildings[b].on_fire}

\* the state at the start of the n-th last tick, n = 1 for the current tick
TickStart(n) == hist[Len(hist) + 1 - n]

-----------------------------------------------------------------------------
(* C1: conservation of the fire set.  At every tick boundary the number of *)
(* Fire records in self.fires equals the number of buildings on fire.      *)
C1_FireSetConserved ==
    TickBoundary => Len(fires) = Cardinality(OnFire)

(* C2: after any step(), no Fire record refers to a building that is       *)
(* destroyed or not on fire: a destroyed building's record is removed in   *)
(* the tick that destroys it.                                              *)
C2_NoStaleFireRecord ==
    AfterStep =>
        \A k \in DOMAIN fires :
            /\ ~buildings[fires[k].building_id].destroyed
            /\ buildings[fires[k].building_id].on_fire
-----------------------------------------------------------------------------
(* C3: extinguishment determinism *)

\* at tick start s a single robot targets a building within its arrival
\* radius that burns with intensity 5, has extinguish rate 10 and water
\* for more than five ticks of extinguishing
C3_Case(s) ==
    /\ DOMAIN s.robots = {0}
    /\ s.robots[0].target_building # None
    /\ LET r == s.robots[0]
           b == s.buildings[r.target_building]
       IN  /\ distance(r.x, r.y, b.x, b.y) < BuildingRadius
           /\ b.on_fire
           /\ b.fire_intensity = 5000
           /\ r.extinguish_rate = 10000
           /\ r.water_capacity >= 6000

C3_Building(s) == buildings[s.robots[0].target_building]

\* spread_rate * dt * 0.7 of the fire the robot of s is at
C3_Growth(s) ==
    LET f == CHOOSE f \in {s.fires[k] : k \in DOMAIN s.fires} :
                 f.building_id = s.robots[0].target_building
    IN  (f.spread_rate * 7) \div 100

(* C3 as stated: one tick after such a state the intensity is exactly 4.0  *)
(* and the building still burns; five ticks after it the intensity is      *)
(* <= 0, the building is not on fire and the robot has extinguished        *)
(* exactly one fire more.                                                  *)
C3_AsStated ==
    AfterStep =>
        /\ (Len(hist) >= 1 /\ C3_Case(TickStart(1))) =>
               /\ C3_Building(TickStart(1)).fire_intensity = 4000
               /\ C3_Building(TickStart(1)).on_fire
        /\ (Len(hist) >= 5 /\ C3_Case(TickStart(5))) =>
               /\ C3_Building(TickStart(5)).fire_intensity <= 0
               /\ ~C3_Building(TickStart(5)).on_fire
               /\ robots[0].fires_extinguished =
                      TickStart(5).robots[0].fires_extinguished + 1

(* C3 amended: update_fires grows the fire in the same tick, so one tick   *)
(* after such a state the intensity is 4.0 + spread_rate * dt * 0.7 and    *)
(* the building burns; five ticks after it the building still burns with   *)
(* intensity 5 * spread_rate * dt * 0.7; the sixth tick puts it out:       *)
(* intensity 0, not on fire, fires_extinguished one more.                  *)
C3_ExtinguishWithGrowth ==
    AfterStep =>
        /\ (Len(hist) >= 1 /\ C3_Case(TickStart(1))) =>
               /\ C3_Building(TickStart(1)).fire_intensity =
                      4000 + C3_Growth(TickStart(1))
               /\ C3_Building(TickStart(1)).on_fire
        /\ (Len(hist) >= 5 /\ C3_Case(TickStart(5))) =>
               /\ C3_Building(TickStart(5)).fire_intensity =
                      5 * C3_Growth(TickStart(5))
               /\ C3_Building(TickStart(5)).on_fire
               /\ robots[0].fires_extinguished =
                      TickStart(5).robots[0].fires_extinguished
        /\ (Len(hist) >= 6 /\ C3_Case(TickStart(6))) =>
               /\ C3_Building(TickStart(6)).fire_intensity = 0
               /\ ~C3_Building(TickStart(6)).on_fire
               /\ robots[0].fires_extinguished =
                      TickStart(6).robots[0].fires_extinguished + 1

C3_Witness ==
    /\ AfterStep
    /\ Len(hist) >= 6
    /\ C3_Case(TickStart(6))
    /\ ~C3_Building(TickStart(6)).on_fire

-----------------------------------------------------------------------------
(* C4: low-water redirect *)

BelowFifth(r) == 5 * r.water_capacity < r.max_water_capacity

HasNoTarget(r) == r.target_building = None /\ r.target_station = None

(* C4 as stated: every robot whose water is below 20% of its maximum when  *)
(* assign_targets runs has a station target and no building target after   *)
(* that pass.                                                              *)
C4_AsStated ==
    [][pc = "assign_targets" =>
          \A r \in DOMAIN robots :
              BelowFifth(robots[r]) =>
                  /\ robots'[r].target_station # None
                  /\ robots'[r].target_building = None]_vars

(* C4 amended: every robot that has no target and whose water is below 20% *)
(* of its maximum when assign_targets runs (with at least one station) has *)
(* a station target and no building target after that pass.                *)
C4_LowWaterRedirect ==
    [][pc = "assign_targets" =>
          \A r \in DOMAIN robots :
              (HasNoTarget(robots[r]) /\ BelowFifth(robots[r])) =>
                  /\ robots'[r].target_station \in DOMAIN water_stations
                  /\ robots'[r].target_building = None]_vars

C4_Witness ==
    /\ pc = "update_robots"
    /\ \E r \in DOMAIN robots :
           /\ HasNoTarget(TickStart(1).robots[r])
           /\ BelowFifth(TickStart(1).robots[r])
           /\ \E k \in DOMAIN fires : buildings[fires[k].building_id].on_fire
           /\ robots[r].target_station # None

-----------------------------------------------------------------------------
(* C5: depot placement *)

\* the least g with g * g >= n
CoveringSide(n) == CHOOSE g \in 1 .. n : g * g >= n /\ \A h \in 1 .. g - 1 : h * h < n

(* C5: the stations lie on the smallest square grid covering num_stations  *)
(* cells: distinct cells with row and column below the grid side, every    *)
(* unjittered cell centre inside [0, city_size] on both axes.              *)
C5_StationsOnCoveringGrid ==
    LET n == num_stations
        g == CoveringSide(n)
        cx(k) == water_stations[k].x - JitterDraw(k)[1]
        cy(k) == water_stations[k].y - JitterDraw(k)[2]
    IN  \A k \in DOMAIN water_stations :
            /\ StationRow(n, k) \in 0 .. g - 1
            /\ StationCol(n, k) \in 0 .. g - 1
            /\ \A m \in DOMAIN water_stations :
                   m # k => <<StationRow(n, m), StationCol(n, m)>>
                              # <<StationRow(n, k), StationCol(n, k)>>
            /\ 0 <= cx(k) /\ cx(k) <= city_size
            /\ 0 <= cy(k) /\ cy(k) <= city_size

-----------------------------------------------------------------------------
(* C6: water bounds.  In every state, between the phases of a tick too,    *)
(* every robot has 0 <= water_capacity <= max_water_capacity.              *)
C6_WaterBounds ==
    \A r \in DOMAIN robots :
        /\ 0 <= robots[r].water_capacity
        /\ robots[r].water_capacity <= robots[r].max_water_capacity

\* a robot has used its last water on a fire that still burns
C6_Witness ==
    /\ pc = "update_fires"
    /\ \E r \in DOMAIN robots :
           /\ robots[r].water_capacity = 0
           /\ TickStart(1).robots[r].water_capacity > 0
           /\ robots[r].target_building # None

-----------------------------------------------------------------------------
(* C7: exclusive targeting.  No robot ever has both a building and a       *)
(* station target, and assign_targets leaves every robot that already has  *)
(* a target exactly as it was.                                             *)
C7_ExclusiveTargeting ==
    /\ [](\A r \in DOMAIN robots :
              robots[r].target_building = None \/ robots[r].target_station = None)
    /\ [][pc = "assign_targets" =>
              \A r \in DOMAIN robots :
                  ~HasNoTarget(robots[r]) =>
                      /\ robots'[r].target_building = robots[r].target_building
                      /\ robots'[r].target_station = robots[r].target_station]_vars

\* one pass that skips a robot which has a target and gives one to another
C7_Witness ==
    /\ pc = "update_robots"
    /\ \E r, q \in DOMAIN robots :
           /\ ~HasNoTarget(TickStart(1).robots[r])
           /\ ~HasNoTarget(robots[r])
           /\ HasNoTarget(TickStart(1).robots[q])
           /\ ~HasNoTarget(robots[q])
-----------------------------------------------------------------------------
(* C8: fire targeting order *)

\* the fires whose building is on fire and not destroyed
Burning == {k \in DOMAIN fires : /\ buildings[fires[k].building_id].on_fire
                                 /\ ~buildings[fires[k].building_id].destroyed}

\* squared distance from robot r to building b
Dist2(r, b) == (b.x - r.x) * (b.x - r.x) + (b.y - r.y) * (b.y - r.y)

(* C8: a robot without target whose water is at or above 20% of its        *)
(* maximum and above 0 is given, among the burning fires, one of highest   *)
(* priority, and among those one whose building is nearest to it.          *)
C8_FireTargetingOrder ==
    [][pc = "assign_targets" =>
          \A r \in DOMAIN robots :
              (/\ HasNoTarget(robots[r])
               /\ ~BelowFifth(robots[r])
               /\ robots[r].water_capacity > 0
               /\ Burning # {}) =>
                  \E k \in Burning :
                      /\ robots'[r].target_building = fires[k].building_id
                      /\ robots'[r].target_station = None
                      /\ \A m \in Burning :
                             /\ fires[m].priority <= fires[k].priority
                             /\ fires[m].priority = fires[k].priority =>
                                    Dist2(robots[r], buildings[fires[k].building_id])
                                      <= Dist2(robots[r], buildings[fires[m].building_id])]_vars

\* two fires of equal priority at distances 7 and 3, the far one first in
\* the list: the robot is given the one at distance 3
C8_Witness ==
    /\ pc = "update_robots"
    /\ \E r \in DOMAIN robots :
       \E k, m \in DOMAIN fires :
           LET old == TickStart(1).robots[r]
               near == buildings[fires[k].building_id]
               far == buildings[fires[m].building_id]
           IN  /\ HasNoTarget(old)
               /\ old.water_capacity = old.max_water_capacity
               /\ m < k
               /\ fires[k].priority = fires[m].priority
               /\ near.on_fire /\ far.on_fire
               /\ Dist2(old, near) = 3000 * 3000
               /\ Dist2(old, far) = 7000 * 7000
               /\ robots[r].target_building = near.id

-----------------------------------------------------------------------------
(* C9: no robot stays idle with zero water *)

\* iterations a robot without water needs at most to reach a station and
\* refill
RefillSlack == 20

Refilled(r) == r.water_capacity * 100 >= r.max_water_capacity * 95

(* C9: a robot with zero water and no target is given a station target by  *)
(* the next assignment pass, and, the run going on, has got to the station *)
(* and refilled to at least 95% of its maximum RefillSlack iterations      *)
(* later; the fire-targeting branch is never reached with                  *)
(* water_capacity = 0.                                                     *)
C9_ZeroWaterRefills ==
    /\ [][pc = "assign_targets" =>
              \A r \in DOMAIN robots :
                  (HasNoTarget(robots[r]) /\ robots[r].water_capacity = 0) =>
                      /\ robots'[r].target_station \in DOMAIN water_stations
                      /\ robots'[r].target_building = None]_vars
    /\ [](pc = "assign_targets" =>
              \A r \in DOMAIN robots :
                  (HasNoTarget(robots[r]) /\ ~BelowFifth(robots[r])) =>
                      robots[r].water_capacity > 0)
    /\ [](\A r \in DOMAIN robots :
              dry_since[r] # None =>
                  /\ ~Refilled(robots[r])
                  /\ i - dry_since[r] <= RefillSlack)

\* a robot that went to a station with no water left has refilled
C9_Witness ==
    /\ pc = "update_fires"
    /\ \E r \in DOMAIN robots :
           /\ TickStart(1).robots[r].target_station # None
           /\ robots[r].target_station = None
           /\ Refilled(robots[r])
           /\ robots[r].distance_traveled > 0
           /\ outcome = "running"

-----------------------------------------------------------------------------
(* C10: propagation cap.  One update_fires starts at most as many fires as *)
(* there are fires, at its start, of a burning building that no robot      *)
(* targets and that this tick does not destroy; each started fire adds one *)
(* record.                                                                 *)
C10_PropagationCap ==
    [][pc = "update_fires" =>
          LET started == total_fires_started' - total_fires_started
              sources == {k \in DOMAIN fires :
                             /\ buildings[fires[k].building_id].on_fire
                             /\ ~buildings[fires[k].building_id].destroyed
                             /\ ~buildings'[fires[k].building_id].destroyed
                             /\ \A r \in DOMAIN robots :
                                    robots[r].target_building # fires[k].building_id}
          IN  /\ 0 <= started
              /\ started <= Cardinality(sources)
              /\ started <= Len(fires)
              /\ Len(fires') = Len(fires) + started]_vars

\* a tick in which fire spread to a building
C10_Witness ==
    /\ pc = "advance"
    /\ total_fires_started > TickStart(1).total_fires_started

-----------------------------------------------------------------------------
(* C11: no duplicate ignition at initialisation.  Immediately after        *)
(* construction the number of buildings on fire is num_fires, which the    *)
(* constructor stores in total_fires_started, self.fires holds exactly one *)
(* Fire record for each of them and no other record.                       *)

\* the state the constructor leaves: no step() has started yet
Constructed == hist = << >> /\ pc = "assign_targets"

RecordsOf(b) == {k \in DOMAIN fires : fires[k].building_id = b}

C11_InitialFires ==
    Constructed =>
        /\ Cardinality(OnFire) = total_fires_started
        /\ Len(fires) = total_fires_started
        /\ \A b \in OnFire : Cardinality(RecordsOf(b)) = 1
        /\ \A k \in DOMAIN fires : fires[k].building_id \in OnFire

\* a city constructed with num_fires = 2
C11_Witness ==
    /\ Constructed
    /\ total_fires_started = 2
    /\ Cardinality(OnFire) = 2
    /\ Cardinality(DOMAIN buildings) > 2

-----------------------------------------------------------------------------
(* C12: destruction implies extinguished.  In every reachable state a      *)
(* destroyed building is not on fire; destroyed is never reset; and a      *)
(* destroyed building is never set on fire again, by spread or otherwise.  *)
C12_DestroyedStaysOut ==
    /\ \A b \in DOMAIN buildings : buildings[b].destroyed => ~buildings[b].on_fire
    /\ [][\A b \in DOMAIN buildings :
            /\ buildings'[b].destroyed => ~buildings'[b].on_fire
            /\ buildings[b].destroyed => buildings'[b].destroyed]_vars

\* update_fires has run with a fire burning, no robot on it, within spread
\* range of a destroyed building
C12_Witness ==
    /\ pc = "advance"
    /\ \E b \in DOMAIN buildings, k \in Unattended(World) :
          LET s == fires[k].building_id
          IN  /\ TickStart(1).buildings[b].destroyed
              /\ TickStart(1).buildings[s].on_fire
              /\ buildings[b].destroyed
              /\ buildings[s].on_fire
              /\ distance(buildings[s].x, buildings[s].y,
                          buildings[b].x, buildings[b].y) < SpreadRadius

-----------------------------------------------------------------------------
(* C13: at most one active fire per building.  In every reachable state no *)
(* two Fire records of self.fires have the same building_id, also when two *)
(* burning buildings queue the same neighbour in one tick and when a       *)
(* building is set on fire again after it was put out.                     *)
C13_OneFirePerBuilding ==
    \A j \in DOMAIN fires, k \in DOMAIN fires :
        j # k => fires[j].building_id # fires[k].building_id

\* a building that was burning at the start of the tick was put out by
\* update_robots and set on fire again by update_fires in the same tick
C13_Witness ==
    /\ pc = "advance"
    /\ time > 0
    /\ \E b \in DOMAIN buildings :
          /\ TickStart(1).buildings[b].on_fire
          /\ buildings[b].on_fire
          /\ buildings[b].fire_start_time = time
          /\ Cardinality(RecordsOf(b)) = 1

-----------------------------------------------------------------------------
(* C14: fire intensity bounds.  In every reachable state the intensity of  *)
(* every Fire record and the fire_intensity of every building lie between  *)
(* 0 and 200: extinguishing never leaves a negative intensity and growth   *)
(* never passes the cap.                                                   *)
C14_IntensityBounds ==
    /\ \A b \in DOMAIN buildings :
          /\ 0 <= buildings[b].fire_intensity
          /\ buildings[b].fire_intensity <= MaxIntensity
    /\ \A k \in DOMAIN fires :
          /\ 0 <= fires[k].intensity
          /\ fires[k].intensity <= MaxIntensity

\* update_robots has put out a fire whose intensity was below what the
\* robot can extinguish in a tick, and left the intensity at 0
C14_Witness ==
    /\ pc = "update_fires"
    /\ \E b \in DOMAIN buildings, r \in DOMAIN robots :
          /\ TickStart(1).buildings[b].on_fire
          /\ TickStart(1).buildings[b].fire_intensity > 0
          /\ TickStart(1).buildings[b].fire_intensity
               < Mul(robots[r].extinguish_rate, DT)
          /\ robots[r].fires_extinguished
               = TickStart(1).robots[r].fires_extinguished + 1
          /\ ~buildings[b].on_fire
          /\ buildings[b].fire_intensity = 0

-----------------------------------------------------------------------------
(* C15: tick ordering.  Every step() runs assign_targets, update_robots,   *)
(* update_fires and then advances the clock by dt, and each phase works on *)
(* what the earlier ones wrote: a robot given a target by assign_targets   *)
(* moves or acts on it in the update_robots of the same tick, and a fire   *)
(* put out by update_robots is not grown by the update_fires of that tick  *)
(* and starts no fire in it.                                               *)

\* assign_targets of this tick gave robot r a target
JustAssigned(r) ==
    /\ HasNoTarget(TickStart(1).robots[r])
    /\ ~HasNoTarget(robots[r])

\* update_robots of this tick put the fire of building b out
JustPutOut(b) ==
    /\ TickStart(1).buildings[b].on_fire
    /\ ~buildings[b].on_fire
    /\ ~buildings[b].destroyed

\* building b was set on fire by the update_fires step being taken
Ignited(b) ==
    /\ buildings'[b].on_fire
    /\ buildings'[b].fire_start_time = time
    /\ buildings'[b].fire_intensity \in IntensityDraws

C15_TickOrder ==
    [][/\ pc = "assign_targets" => pc' = "update_robots" /\ time' = time
       /\ pc = "update_robots" =>
            /\ pc' = "update_fires" /\ time' = time
            /\ \A r \in DOMAIN robots :
                  JustAssigned(r) =>
                      \/ robots'[r].x # robots[r].x
                      \/ robots'[r].y # robots[r].y
                      \/ robots'[r].water_capacity # robots[r].water_capacity
                      \/ HasNoTarget(robots'[r])
       /\ pc = "update_fires" =>
            /\ pc' = "advance" /\ time' = time
            /\ \A b \in DOMAIN buildings :
                  JustPutOut(b) =>
                      /\ RecordsOf(b) = {}
                      /\ buildings'[b] = buildings[b] \/ Ignited(b)
            /\ total_fires_started' - total_fires_started
                 <= Cardinality(Unattended(World))
       /\ pc = "advance" => pc' = "loop" /\ time' = time + DT
       /\ pc = "loop" => pc' \in {"assign_targets", "done"} /\ time' = time
      ]_vars

\* update_fires has run in a tick in which update_robots put a fire out, next
\* to a building that could have caught fire, while a robot that was given
\* a target has only moved toward it
C15_Witness ==
    /\ pc = "advance"
    /\ \E b \in DOMAIN buildings, c \in DOMAIN buildings :
          /\ JustPutOut(b)
          /\ buildings[b].fire_intensity = 0
          /\ ~buildings[c].on_fire /\ ~buildings[c].destroyed /\ c # b
          /\ distance(buildings[b].x, buildings[b].y,
                      buildings[c].x, buildings[c].y) < SpreadRadius
    /\ \E r \in DOMAIN robots :
          /\ robots[r].distance_traveled > 0
          /\ robots[r].water_capacity = robots[r].max_water_capacity

-----------------------------------------------------------------------------
(* C16: movement outside the arrival radius.                               *)

\* the position robot r is heading for, and how far away it is
TargetOf(r) ==
    IF robots[r].target_station # None
    THEN water_stations[robots[r].target_station]
    ELSE buildings[robots[r].target_building]

TargetDistance(r) ==
    distance(robots[r].x, robots[r].y, TargetOf(r).x, TargetOf(r).y)

\* robot r has a target and is outside its arrival radius
OutsideRadius(r) ==
    \/ robots[r].target_station # None /\ TargetDistance(r) >= StationRadius
    \/ /\ robots[r].target_station = None
       /\ robots[r].target_building # None
       /\ TargetDistance(r) >= BuildingRadius

\* the step being taken displaces robot r toward its target by
\* min(speed * dt, distance), up to the rounding of the fixed-point
\* square root and quotient, and adds the displacement to distance_traveled
Displaced(r) ==
    LET step == Min2(Mul(robots[r].speed, DT), TargetDistance(r))
        moved == distance(robots[r].x, robots[r].y, robots'[r].x, robots'[r].y)
        left == distance(robots'[r].x, robots'[r].y, TargetOf(r).x, TargetOf(r).y)
    IN  /\ moved - step \in -2 .. 2
        /\ TargetDistance(r) - left - step \in -2 .. 2
        /\ robots'[r].distance_traveled = robots[r].distance_traveled + moved

KeepsTarget(r) ==
    /\ robots'[r].target_station = robots[r].target_station
    /\ robots'[r].target_building = robots[r].target_building

\* the step being taken clears robot r's target and leaves it where it is
Dropped(r) ==
    /\ HasNoTarget(robots'[r])
    /\ robots'[r].x = robots[r].x /\ robots'[r].y = robots[r].y
    /\ robots'[r].distance_traveled = robots[r].distance_traveled

\* the claim as stated: every robot outside the arrival radius of its target
\* is displaced and keeps the target, and a building target is cleared for
\* a building that no longer burns only within the arrival radius
C16_AsStated ==
    [][pc = "update_robots" =>
         \A r \in DOMAIN robots :
            /\ OutsideRadius(r) => Displaced(r) /\ KeepsTarget(r)
            /\ (/\ robots[r].target_building # None
                /\ robots'[r].target_building = None
                /\ ~buildings'[robots[r].target_building].on_fire)
               => TargetDistance(r) < BuildingRadius
      ]_vars

(* C16, amended: in update_robots a robot outside the arrival radius of    *)
(* its station target, or of a building target that is still on fire, is   *)
(* displaced toward it by min(speed*dt, distance), keeps the target and    *)
(* has distance_traveled increased by the displacement; a robot whose      *)
(* building target is no longer on fire, or destroyed, has the target      *)
(* cleared and is not moved, whatever its distance.                        *)
C16_MovementOutsideRadius ==
    [][pc = "update_robots" =>
         \A r \in DOMAIN robots :
            LET b == robots[r].target_building
            IN  /\ (robots[r].target_station # None /\ OutsideRadius(r))
                      => Displaced(r) /\ KeepsTarget(r)
                /\ (robots[r].target_station = None /\ b # None) =>
                      \* still burning when the pass is over, so also at r's turn
                      /\ (OutsideRadius(r) /\ buildings'[b].on_fire)
                            => Displaced(r) /\ KeepsTarget(r)
                      \* not burning before the pass, so neither at r's turn
                      /\ (~buildings[b].on_fire \/ buildings[b].destroyed)
                            => Dropped(r)
                      \* put out during the pass, before or after r's turn
                      /\ OutsideRadius(r)
                            => \/ Displaced(r) /\ KeepsTarget(r)
                               \/ Dropped(r)
      ]_vars

\* update_robots has dropped the target of a robot that had been moving
\* toward a burning building and was still farther from it than the arrival
\* radius when another robot put the fire out
C16_Witness ==
    /\ pc = "update_fires"
    /\ \E r \in DOMAIN robots, b \in DOMAIN buildings :
          LET old == TickStart(1).robots[r]
          IN  /\ JustPutOut(b)
              /\ old.target_building = b
              /\ old.distance_traveled > 0
              /\ distance(old.x, old.y, buildings[b].x, buildings[b].y)
                   >= BuildingRadius
              /\ HasNoTarget(robots[r])
              /\ robots[r].x = old.x /\ robots[r].y = old.y
              /\ robots[r].distance_traveled = old.distance_traveled

-----------------------------------------------------------------------------
(* C17: no division by zero in movement.  In update_robots the direction   *)
(* quotient dx / dist, dy / dist is only evaluated, that is the robot is   *)
(* only moved, with dist at least the arrival radius of its target, so     *)
(* with dist > 0; a robot at distance 0 from its target is treated as      *)
(* arrived in that tick: it is not moved, and it refills at its station or *)
(* works on its burning building.                                          *)

\* the step being taken changes the position of robot r
Moves(r) == robots'[r].x # robots[r].x \/ robots'[r].y # robots[r].y

C17_NoDivisionByZero ==
    [][pc = "update_robots" =>
         \A r \in DOMAIN robots :
            /\ Moves(r) =>
                  /\ ~HasNoTarget(robots[r])
                  /\ TargetDistance(r) > 0
                  /\ robots[r].target_station # None
                        => TargetDistance(r) >= 2000
                  /\ robots[r].target_station = None
                        => TargetDistance(r) >= 1000
            /\ (~HasNoTarget(robots[r]) /\ TargetDistance(r) = 0) =>
                  /\ ~Moves(r)
                  /\ robots'[r].distance_traveled = robots[r].distance_traveled
                  /\ robots[r].target_station # None =>
                        robots'[r].water_capacity > robots[r].water_capacity
                  /\ (/\ robots[r].target_station = None
                      /\ buildings'[robots[r].target_building].on_fire
                      /\ robots[r].water_capacity > 0) =>
                        robots'[r].water_capacity < robots[r].water_capacity
      ]_vars

\* a robot that moved in the last tick by the whole distance that was left
\* is exactly on its target when update_robots starts
C17_Witness ==
    /\ pc = "update_robots"
    /\ Len(hist) > 1
    /\ \E r \in DOMAIN robots :
          /\ ~HasNoTarget(robots[r])
          /\ TargetDistance(r) = 0
          /\ TickStart(2).robots[r].x # robots[r].x
             \/ TickStart(2).robots[r].y # robots[r].y

-----------------------------------------------------------------------------
-----------------------------------------------------------------------------
(* C19: each extinguishment is counted exactly once.  When several robots  *)
(* target the same burning building within its arrival radius in one tick, *)
(* only the robot whose action brings the intensity to 0 increments its    *)
(* fires_extinguished and the world counter and records one response time, *)
(* which is not negative; the others count nothing and have their target   *)
(* cleared.  Hence in every reachable state the robots' fires_extinguished *)
(* sum to total_fires_extinguished, the number of response times recorded. *)

RECURSIVE SumExtinguished(_, _)
SumExtinguished(rs, k) ==
    IF k \notin DOMAIN rs THEN 0
    ELSE rs[k].fires_extinguished + SumExtinguished(rs, k + 1)

CountersAgree(rs, total, times) ==
    /\ SumExtinguished(rs, 0) = total
    /\ Len(times) = total
    /\ \A n \in DOMAIN times : times[n] >= 0

\* buildings whose fire the update_robots step being taken puts out
PutOutNow == {b \in DOMAIN buildings :
                 buildings[b].on_fire /\ ~buildings'[b].on_fire}

\* the robots that count a fire of building b in the step being taken
Counting(b) ==
    {r \in DOMAIN robots :
        /\ robots[r].target_building = b
        /\ robots'[r].fires_extinguished # robots[r].fires_extinguished}

C19_CountedOnce ==
    /\ CountersAgree(robots, total_fires_extinguished, response_times)
    /\ [][/\ CountersAgree(robots', total_fires_extinguished', response_times')
          /\ pc # "update_robots" =>
                /\ total_fires_extinguished' = total_fires_extinguished
                /\ \A r \in DOMAIN robots :
                      robots'[r].fires_extinguished = robots[r].fires_extinguished
          /\ pc = "update_robots" =>
                /\ total_fires_extinguished'
                     = total_fires_extinguished + Cardinality(PutOutNow)
                /\ \A b \in DOMAIN buildings :
                      Cardinality(Counting(b)) = IF b \in PutOutNow THEN 1 ELSE 0
                /\ \A r \in DOMAIN robots :
                      LET b == robots[r].target_building
                      IN  /\ robots'[r].fires_extinguished
                               - robots[r].fires_extinguished \in {0, 1}
                          /\ robots'[r].fires_extinguished
                               # robots[r].fires_extinguished
                               => /\ b \in PutOutNow
                                  /\ TargetDistance(r) < BuildingRadius
                                  /\ HasNoTarget(robots'[r])
                          \* the fire was put out in the last tick, after
                          \* this robot's turn: the target is just cleared
                          /\ (/\ robots[r].target_station = None
                              /\ b # None
                              /\ ~buildings[b].on_fire)
                               => Dropped(r)
                          \* put out in this pass: a robot within the radius
                          \* just clears the target, or had its turn before
                          \* the fire was out and worked on it
                          /\ (/\ b \in PutOutNow
                              /\ r \notin Counting(b)
                              /\ TargetDistance(r) < BuildingRadius
                              /\ robots'[r].target_building # None)
                               => robots'[r].water_capacity
                                    < robots[r].water_capacity
         ]_vars

\* update_robots has put out a fire that two robots within the arrival
\* radius were working on; one of them counted it
C19_Witness ==
    /\ pc = "update_fires"
    /\ \E b \in DOMAIN buildings, r \in DOMAIN robots, q \in DOMAIN robots :
          LET old == TickStart(1)
          IN  /\ JustPutOut(b)
              /\ r # q
              /\ old.robots[r].target_building = b
              /\ old.robots[q].target_building = b
              /\ distance(robots[r].x, robots[r].y,
                          buildings[b].x, buildings[b].y) < BuildingRadius
              /\ distance(robots[q].x, robots[q].y,
                          buildings[b].x, buildings[b].y) < BuildingRadius
              /\ robots[r].fires_extinguished
                   = old.robots[r].fires_extinguished + 1
              /\ robots[q].fires_extinguished = old.robots[q].fires_extinguished
              /\ robots[q].water_capacity > 0
              /\ total_fires_extinguished = 1
              /\ Len(response_times) = 1

-----------------------------------------------------------------------------
(* C20: counter conservation.  At every tick boundary, and in between,     *)
(* total_fires_started = total_fires_extinguished +                        *)
(* total_buildings_destroyed + the number of buildings on fire; every      *)
(* ignition, extinguishment and destruction changes one counter by one     *)
(* together with one on_fire flag.                                         *)

Balance(bs, started, put_out, destroyed) ==
    started = put_out + destroyed
                + Cardinality({b \in DOMAIN bs : bs[b].on_fire})

\* buildings the step being taken sets on fire, and those it destroys
IgnitedNow == {b \in DOMAIN buildings :
                  ~buildings[b].on_fire /\ buildings'[b].on_fire}

DestroyedNow == {b \in DOMAIN buildings :
                    ~buildings[b].destroyed /\ buildings'[b].destroyed}

C20_CounterConservation ==
    /\ Balance(buildings, total_fires_started, total_fires_extinguished,
               total_buildings_destroyed)
    /\ [][/\ Balance(buildings', total_fires_started',
                     total_fires_extinguished', total_buildings_destroyed')
          /\ total_fires_started'
               = total_fires_started + Cardinality(IgnitedNow)
          /\ total_buildings_destroyed'
               = total_buildings_destroyed + Cardinality(DestroyedNow)
          /\ total_fires_extinguished'
               = total_fires_extinguished
                   + Cardinality(PutOutNow \ DestroyedNow)
          /\ \A b \in DestroyedNow : buildings[b].on_fire /\ ~buildings'[b].on_fire
          /\ pc = "update_robots" => IgnitedNow = {} /\ DestroyedNow = {}
          /\ pc = "update_fires" => PutOutNow \ DestroyedNow = {}
          /\ pc \notin {"update_robots", "update_fires"}
               => buildings' = buildings
         ]_vars

\* a step() has returned after fires were put out and others started by
\* spreading, with a building still on fire
C20_Witness ==
    /\ AfterStep
    /\ total_fires_extinguished > 0
    /\ total_fires_started > 2
    /\ OnFire # {}
    /\ total_fires_started
         = total_fires_extinguished + total_buildings_destroyed
             + Cardinality(OnFire)

\* a step() has returned after a building burnt down, another still on fire
C20_WitnessDestroyed ==
    /\ AfterStep
    /\ total_buildings_destroyed > 0
    /\ OnFire # {}

-----------------------------------------------------------------------------
(* C21: implicit priority range.  Every ignition, at construction or by    *)
(* spread, draws its intensity from [50, 100] before the priority is       *)
(* computed, so every Fire record has priority 3, 4 or 5, never 1 or 2;    *)
(* and the priority of a Fire record never changes while the record is in  *)
(* self.fires, whatever happens to its intensity or to the buildings       *)
(* nearby.                                                                 *)
C21_PriorityRange ==
    /\ \A k \in DOMAIN fires : fires[k].priority \in {3, 4, 5}
    /\ [][/\ \A k \in DOMAIN fires' : fires'[k].priority \in {3, 4, 5}
          \* no step both removes a building's record and adds a new one,
          \* so a record of the same building is the same record
          /\ \A j \in DOMAIN fires, k \in DOMAIN fires' :
                fires'[k].building_id = fires[j].building_id
                    => fires'[k].priority = fires[j].priority
         ]_vars

\* a record keeps priority 3 although its intensity has grown to where a
\* fresh computation gives another priority, and a building nearby has been
\* destroyed
C21_Witness ==
    /\ AfterStep
    /\ \E k \in DOMAIN fires, c \in DOMAIN buildings :
          LET b == fires[k].building_id
          IN  /\ buildings[b].on_fire
              /\ fires[k].priority = 3
              /\ fires[k].intensity > 60000
              /\ _calculate_fire_priority(buildings, b, fires[k].intensity) = 4
              /\ buildings[c].destroyed
              /\ distance(buildings[b].x, buildings[b].y,
                          buildings[c].x, buildings[c].y) < NearbyRadius

\* fires of priority 5 and 4 side by side, the second started by spread
C21_WitnessCritical ==
    /\ AfterStep
    /\ total_fires_started > 1
    /\ \E j \in DOMAIN fires, k \in DOMAIN fires :
          fires[j].priority = 5 /\ fires[k].priority = 4
====
